---- MODULE Spec2Model ----
(***************************************************************************)
(* Interactions Service (src/main.py): four HTTP handlers over the single  *)
(* table `interactions`.  FastAPI runs each `def` handler on a worker      *)
(* thread, so requests interleave between the statements of a handler.     *)
(*                                                                         *)
(* Storage semantics assumed of the engine behind DATABASE_URL: a          *)
(* statement is atomic; readers see committed rows only; an UPDATE keeps   *)
(* its row locked until its connection commits.  The order in which a      *)
(* SELECT returns rows is the table's order here; no property below        *)
(* depends on it.  uuid.uuid4() is modelled as a value never generated     *)
(* before; the n-th uuid generated is named n.  A handler's response is    *)
(* what it answers from its local `result` at its return statement.        *)
(***************************************************************************)
EXTENDS Integers, Sequences, FiniteSets

\* ---- bounds of the model ------------------------------------------------
NumReq == 2      \* requests that can be in flight at once
MaxIds == 2      \* uuids that can be generated (creates that can run)

Req == 1..NumReq
\* inputs: feedback scores, query and response texts, readings of utcnow()
Scores == {-1, 0, 5}
Queries == {"hi"}
Responses == {"hello"}
Times == {1}

\* str(uuid): the textual form of uuid n, a non-empty string
Str(n) == <<n>>
\* ids a client can put in a path: Str(0) is never generated, the others
\* may or may not have a row yet
PathIds == {Str(n) : n \in 0..MaxIds}

\* Optional[T]: None is {}, a present value v is {v}
None == {}
Some(v) == {v}
OptScores == {None} \cup {Some(s) : s \in Scores}
OptBools == {None} \cup {Some(b) : b \in BOOLEAN}
\* the one value of an Optional that is present
The(opt) == CHOOSE v \in opt : TRUE

VARIABLES
    table,      \* committed rows of `interactions`, a sequence of rows
    uuids,      \* number of uuids generated so far
    req,        \* per request slot: position and locals of its handler
    lastFb,     \* history: id -> value the last committed statement wrote to feedback
    lastPr,     \* history: id -> value the last committed statement wrote to
                \* processed_for_training
    retTrue     \* history: ids whose mark-processed(true) returned 200 while
                \* no mark-processed(false) on that id was in flight, and with
                \* no step of a mark-processed(false) on that id since

vars == <<table, uuids, req, lastFb, lastPr, retTrue>>

\* a request slot with no request in it
Idle ==
    [pc |-> "idle", interaction_id |-> <<>>,
     user_query |-> "", bot_response |-> "", timestamp |-> None,
     feedback |-> None, processed_for_training |-> None,
     result |-> <<>>]

\* ---- the table and its statements ---------------------------------------

\* fault: the insert leaves interaction_id out of its values
NewRowWithoutId(id, q, b, ts) ==
    [interaction_id |-> <<>>, user_query |-> q, bot_response |-> b,
     feedback |-> 0, timestamp |-> ts, processed_for_training |-> FALSE]

\* the row an insert of (id, q, b, ts) stores: feedback and
\* processed_for_training take their column defaults
NewRow(id, q, b, ts) ==
    [interaction_id |-> id, user_query |-> q, bot_response |-> b,
     feedback |-> 0, timestamp |-> ts, processed_for_training |-> FALSE]

\* fault: processed_for_training defaults to False instead of None
MatchesDefaultUnprocessed(row, f, p) ==
    /\ (f # None => \E v \in f : row.feedback = v)
    /\ row.processed_for_training = (IF p = None THEN FALSE ELSE The(p))

\* fault: `if feedback:` for `if feedback is not None:`, likewise the flag
MatchesTruthy(row, f, p) ==
    /\ ((f # None /\ f # Some(0)) => \E v \in f : row.feedback = v)
    /\ (p = Some(TRUE) => row.processed_for_training)

\* the WHERE clause get_interactions builds from its two optional filters
Matches(row, f, p) ==
    /\ (f # None => \E v \in f : row.feedback = v)
    /\ (p # None => \E v \in p : row.processed_for_training = v)

\* interactions.select() with the filters, fetchall()
SelectWhere(tbl, f, p) == SelectSeq(tbl, LAMBDA row : Matches(row, f, p))

\* interactions.select().where(interaction_id == id)
SelectById(tbl, id) == SelectSeq(tbl, LAMBDA row : row.interaction_id = id)

\* Result.first(): the first row, or None (the empty sequence)
First(rows) == IF rows = <<>> THEN <<>> ELSE <<rows[1]>>

\* fault: the update writes the flag's default along with the score
SetFeedbackResetsProcessed(row, s) ==
    [row EXCEPT !.feedback = s, !.processed_for_training = FALSE]

\* fault: the timestamp column is stamped again on update
SetFeedbackTouchesTimestamp(row, s) ==
    [row EXCEPT !.feedback = s, !.timestamp = @ + 1]

\* .values(feedback=s) on one row
SetFeedback(row, s) == [row EXCEPT !.feedback = s]

\* fault: the flag is flipped instead of set
SetProcessedToggle(row, v) ==
    [row EXCEPT !.processed_for_training = ~@]

\* fault: the update writes the score's default along with the flag
SetProcessedResetsFeedback(row, v) ==
    [row EXCEPT !.processed_for_training = v, !.feedback = 0]

\* .values(processed_for_training=v) on one row
SetProcessed(row, v) == [row EXCEPT !.processed_for_training = v]

\* fault: the UPDATE has no WHERE clause
UpdateFeedbackAll(tbl, id, s) ==
    [i \in DOMAIN tbl |-> SetFeedback(tbl[i], s)]

\* UPDATE interactions SET feedback = s WHERE interaction_id = id
UpdateFeedbackWhere(tbl, id, s) ==
    [i \in DOMAIN tbl |->
        IF tbl[i].interaction_id = id THEN SetFeedback(tbl[i], s) ELSE tbl[i]]

\* fault: the UPDATE inserts a row when none has the id
UpdateProcessedUpsert(tbl, id, v) ==
    IF \E i \in DOMAIN tbl : tbl[i].interaction_id = id
    THEN [i \in DOMAIN tbl |->
            IF tbl[i].interaction_id = id THEN SetProcessed(tbl[i], v) ELSE tbl[i]]
    ELSE Append(tbl, SetProcessed(NewRow(id, "", "", 1), v))

\* UPDATE interactions SET processed_for_training = v WHERE interaction_id = id
UpdateProcessedWhere(tbl, id, v) ==
    [i \in DOMAIN tbl |->
        IF tbl[i].interaction_id = id THEN SetProcessed(tbl[i], v) ELSE tbl[i]]

\* the row `id` is locked by the uncommitted UPDATE of another request
Locked(id, r) ==
    \E o \in Req \ {r} :
        /\ req[o].pc \in {"fb_commit", "pr_commit"}
        /\ req[o].interaction_id = id
        /\ req[o].result # <<>>

\* ---- what a handler answers from its `result` ---------------------------

\* create_interaction: the row read back, or 500
CreateResponse(result) ==
    IF result # <<>> THEN [status |-> 200, body |-> result]
                     ELSE [status |-> 500, body |-> <<>>]

\* get_interactions: the rows fetched
ListResponse(results) == [status |-> 200, body |-> results]

\* update_feedback, mark_as_processed: the row returned by the UPDATE, or 404
UpdateResponse(result) ==
    IF result # <<>> THEN [status |-> 200, body |-> result]
                     ELSE [status |-> 404, body |-> <<>>]

\* the response request r is about to send (r is at a return)
Response(r) ==
    CASE req[r].pc = "c_return" -> CreateResponse(req[r].result)
      [] req[r].pc = "ls_return" -> ListResponse(req[r].result)
      [] OTHER -> UpdateResponse(req[r].result)

\* ---- initial state ------------------------------------------------------

Init ==
    /\ table = <<>>
    /\ uuids = 0
    /\ req = [r \in Req |-> Idle]
    /\ lastFb = [id \in PathIds |-> None]
    /\ lastPr = [id \in PathIds |-> None]
    /\ retTrue = {}

\* ---- POST /interactions -------------------------------------------------

\* lines 57-63: generate the id, read the clock, build the insert
create_interaction_begin(r, q, b, now) ==
    /\ req[r].pc = "idle"
    /\ uuids < MaxIds
    /\ uuids' = uuids + 1
    /\ req' = [req EXCEPT ![r] =
            [Idle EXCEPT !.pc = "c_insert",
                         !.interaction_id = Str(uuids + 1),
                         !.user_query = q, !.bot_response = b,
                         !.timestamp = Some(now)]]
    /\ UNCHANGED <<table, lastFb, lastPr, retTrue>>

\* lines 64-66: execute the insert and commit
create_interaction_insert(r) ==
    /\ req[r].pc = "c_insert"
    /\ SelectById(table, req[r].interaction_id) = <<>>   \* primary key
    /\ LET row == NewRow(req[r].interaction_id, req[r].user_query,
                         req[r].bot_response, The(req[r].timestamp))
       IN  /\ table' = Append(table, row)
           /\ lastFb' = [lastFb EXCEPT ![row.interaction_id] = Some(row.feedback)]
           /\ lastPr' = [lastPr EXCEPT ![row.interaction_id] =
                                           Some(row.processed_for_training)]
    /\ req' = [req EXCEPT ![r].pc = "c_select"]
    /\ UNCHANGED <<uuids, retTrue>>

\* lines 69-71: read the row back on a new connection
create_interaction_readback(r) ==
    /\ req[r].pc = "c_select"
    /\ req' = [req EXCEPT ![r].pc = "c_return",
                          ![r].result = First(SelectById(table, req[r].interaction_id))]
    /\ UNCHANGED <<table, uuids, lastFb, lastPr, retTrue>>

\* lines 72-74: return the row, or 500
create_interaction_return(r) ==
    /\ req[r].pc = "c_return"
    /\ req' = [req EXCEPT ![r] = Idle]
    /\ UNCHANGED <<table, uuids, lastFb, lastPr, retTrue>>

\* ---- GET /interactions --------------------------------------------------

\* lines 78-87: build the SELECT from the filters, fetch all rows
get_interactions_execute(r, f, p) ==
    /\ req[r].pc = "idle"
    /\ req' = [req EXCEPT ![r] =
            [Idle EXCEPT !.pc = "ls_return", !.feedback = f,
                         !.processed_for_training = p,
                         !.result = SelectWhere(table, f, p)]]
    /\ UNCHANGED <<table, uuids, lastFb, lastPr, retTrue>>

\* line 88: return the rows
get_interactions_return(r) ==
    /\ req[r].pc = "ls_return"
    /\ req' = [req EXCEPT ![r] = Idle]
    /\ UNCHANGED <<table, uuids, lastFb, lastPr, retTrue>>

\* ---- PATCH /interactions/{id}/feedback ----------------------------------

\* lines 93-100: execute UPDATE ... RETURNING, take the first row
update_feedback_execute(r, id, s) ==
    /\ req[r].pc = "idle"
    /\ ~Locked(id, r)
    /\ req' = [req EXCEPT ![r] =
            [Idle EXCEPT !.pc = "fb_commit",
                         !.interaction_id = id, !.feedback = Some(s),
                         !.result = First(SelectById(
                                        UpdateFeedbackWhere(table, id, s), id))]]
    /\ UNCHANGED <<table, uuids, lastFb, lastPr, retTrue>>

\* line 101: commit; the statement's write, if it matched a row, becomes visible
update_feedback_commit(r) ==
    /\ req[r].pc = "fb_commit"
    /\ table' = IF req[r].result = <<>> THEN table
                 ELSE UpdateFeedbackWhere(table, req[r].interaction_id,
                                          The(req[r].feedback))
    /\ lastFb' = IF req[r].result # <<>>
                 THEN [lastFb EXCEPT ![req[r].interaction_id] = req[r].feedback]
                 ELSE lastFb
    /\ req' = [req EXCEPT ![r].pc = "fb_return"]
    /\ UNCHANGED <<uuids, lastPr, retTrue>>

\* lines 102-104: return the row, or 404
update_feedback_return(r) ==
    /\ req[r].pc = "fb_return"
    /\ req' = [req EXCEPT ![r] = Idle]
    /\ UNCHANGED <<table, uuids, lastFb, lastPr, retTrue>>

\* ---- PATCH /interactions/{id}/processed ---------------------------------

\* the id a step of request r counts against retTrue: r is a
\* mark-processed(false) that matched a row
FalseStep(r) ==
    IF req[r].processed_for_training = Some(FALSE) /\ req[r].result # <<>>
    THEN {req[r].interaction_id} ELSE {}

\* lines 109-116: execute UPDATE ... RETURNING, take the first row
mark_as_processed_execute(r, id, v) ==
    /\ req[r].pc = "idle"
    /\ ~Locked(id, r)
    /\ req' = [req EXCEPT ![r] =
            [Idle EXCEPT !.pc = "pr_commit",
                         !.interaction_id = id,
                         !.processed_for_training = Some(v),
                         !.result = First(SelectById(
                                        UpdateProcessedWhere(table, id, v), id))]]
    /\ retTrue' = IF v = FALSE /\ SelectById(table, id) # <<>>
                  THEN retTrue \ {id} ELSE retTrue
    /\ UNCHANGED <<table, uuids, lastFb, lastPr>>

\* line 117: commit; the statement's write, if it matched a row, becomes visible
mark_as_processed_commit(r) ==
    /\ req[r].pc = "pr_commit"
    /\ table' = IF req[r].result = <<>> THEN table
                 ELSE UpdateProcessedWhere(table, req[r].interaction_id,
                                           The(req[r].processed_for_training))
    /\ lastPr' = IF req[r].result # <<>>
                 THEN [lastPr EXCEPT ![req[r].interaction_id] =
                                          req[r].processed_for_training]
                 ELSE lastPr
    /\ retTrue' = retTrue \ FalseStep(r)
    /\ req' = [req EXCEPT ![r].pc = "pr_return"]
    /\ UNCHANGED <<uuids, lastFb>>

\* lines 118-120: return the row, or 404
mark_as_processed_return(r) ==
    /\ req[r].pc = "pr_return"
    /\ req' = [req EXCEPT ![r] = Idle]
    /\ retTrue' = IF /\ UpdateResponse(req[r].result).status = 200
                     /\ req[r].processed_for_training = Some(TRUE)
                     /\ \A o \in Req : FalseStep(o) # {req[r].interaction_id}
                  THEN retTrue \cup {req[r].interaction_id}
                  ELSE retTrue \ FalseStep(r)
    /\ UNCHANGED <<table, uuids, lastFb, lastPr>>

Next ==
    \/ \E r \in Req, q \in Queries, b \in Responses, now \in Times :
            create_interaction_begin(r, q, b, now)
    \/ \E r \in Req : create_interaction_insert(r)
    \/ \E r \in Req : create_interaction_readback(r)
    \/ \E r \in Req : create_interaction_return(r)
    \/ \E r \in Req, f \in OptScores, p \in OptBools : get_interactions_execute(r, f, p)
    \/ \E r \in Req : get_interactions_return(r)
    \/ \E r \in Req, id \in PathIds, s \in Scores : update_feedback_execute(r, id, s)
    \/ \E r \in Req : update_feedback_commit(r)
    \/ \E r \in Req : update_feedback_return(r)
    \/ \E r \in Req, id \in PathIds, v \in BOOLEAN : mark_as_processed_execute(r, id, v)
    \/ \E r \in Req : mark_as_processed_commit(r)
    \/ \E r \in Req : mark_as_processed_return(r)

Spec == Init /\ [][Next]_vars

\* ---- vocabulary of the properties ---------------------------------------

Range(seq) == {seq[i] : i \in DOMAIN seq}
NoDuplicates(seq) == \A i, j \in DOMAIN seq : i # j => seq[i] # seq[j]
Ids(tbl) == {tbl[i].interaction_id : i \in DOMAIN tbl}
RowOf(tbl, id) == CHOOSE row \in Range(tbl) : row.interaction_id = id

\* request r takes the step of its handler that leads from `from` to `to`
Steps(r, from, to) == req[r].pc = from /\ req'[r].pc = to

\* rows other than `id` are the same in both tables, none added or removed
SameButFor(tbl, tbl2, id) ==
    /\ Len(tbl2) = Len(tbl)
    /\ \A i \in DOMAIN tbl :
          tbl[i].interaction_id # id => tbl2[i] = tbl[i]

\* ---- C1 ------------------------------------------------------------------
\* C1: the record a create returns has a non-empty interaction_id distinct
\* from every other id generated, feedback = 0, processed_for_training =
\* FALSE, and the user_query and bot_response supplied -- whatever other
\* requests ran between its insert and its read-back.
C1_CreateReturnsDefaults ==
    \A r \in Req :
        (req[r].pc = "c_return" /\ Response(r).status = 200) =>
            LET rec == Response(r).body[1] IN
            /\ Len(rec.interaction_id) > 0
            /\ rec.interaction_id \notin
                    {Str(n) : n \in 1..uuids} \ {req[r].interaction_id}
            /\ rec.feedback = 0
            /\ rec.processed_for_training = FALSE
            /\ rec.user_query = req[r].user_query
            /\ rec.bot_response = req[r].bot_response

\* ---- C2 ------------------------------------------------------------------
\* C2: an unfiltered list answers 200 with every committed row exactly once
\* (no duplicates, no omissions, order ignored); an empty table gives an
\* empty list, not an error.
C2_ListAllExactlyOnce ==
    [][\A r \in Req :
        (/\ Steps(r, "idle", "ls_return")
         /\ req'[r].feedback = None
         /\ req'[r].processed_for_training = None) =>
            LET resp == ListResponse(req'[r].result) IN
            /\ resp.status = 200
            /\ Range(resp.body) = Range(table)
            /\ NoDuplicates(resp.body)
            /\ Len(resp.body) = Len(table)
            /\ (table = <<>> => resp.body = <<>>)]_vars

C2_Witness ==
    \E r \in Req :
        /\ req[r].pc = "ls_return"
        /\ req[r].feedback = None /\ req[r].processed_for_training = None
        /\ Len(req[r].result) = 2
        /\ \E row \in Range(req[r].result) : row.feedback # 0
        /\ \E row \in Range(req[r].result) : row.processed_for_training

\* ---- C3 ------------------------------------------------------------------
\* C3: a list returns exactly the stored rows that equal every filter that is
\* present; an absent filter constrains nothing; feedback=0 and
\* processed_for_training=false are filters like any other value.
C3_ListFilters ==
    [][\A r \in Req :
        Steps(r, "idle", "ls_return") =>
            LET body == ListResponse(req'[r].result).body IN
            /\ Range(body) =
                 {row \in Range(table) :
                    /\ \A f \in req'[r].feedback : row.feedback = f
                    /\ \A p \in req'[r].processed_for_training :
                            row.processed_for_training = p}
            /\ NoDuplicates(body)]_vars

\* feedback=0 together with processed_for_training=false selects one of two rows
C3_Witness ==
    \E r \in Req :
        /\ req[r].pc = "ls_return"
        /\ req[r].feedback = Some(0)
        /\ req[r].processed_for_training = Some(FALSE)
        /\ Len(req[r].result) = 1
        /\ Len(table) = 2
        /\ \E row \in Range(table) : row.feedback # 0 \/ row.processed_for_training

\* ---- C4 ------------------------------------------------------------------
\* C4: update-feedback on an existing id with score s returns, and leaves
\* stored, the row as it was just before except feedback = s; the other rows
\* are unchanged, none is added or removed; every score is accepted.
C4_FeedbackFrame ==
    [][\A r \in Req :
            /\ (Steps(r, "idle", "fb_commit")
                    /\ req'[r].interaction_id \in Ids(table)) =>
                  LET before == RowOf(table, req'[r].interaction_id) IN
                  \E s \in req'[r].feedback :
                      req'[r].result = <<[before EXCEPT !.feedback = s]>>
            /\ (Steps(r, "fb_commit", "fb_return") /\ req[r].result # <<>>) =>
                  /\ SameButFor(table, table', req[r].interaction_id)
                  /\ RowOf(table', req[r].interaction_id) = req[r].result[1]
                  /\ \E s \in req[r].feedback :
                        RowOf(table', req[r].interaction_id) =
                            [RowOf(table, req[r].interaction_id)
                                EXCEPT !.feedback = s]
            /\ (Steps(r, "fb_return", "idle") /\ req[r].result # <<>>) =>
                  /\ table' = table
                  /\ Response(r) = [status |-> 200, body |-> req[r].result]]_vars

\* a negative score was stored on a row whose flag is set, beside another row
C4_Witness ==
    \E r \in Req :
        /\ req[r].pc = "fb_return"
        /\ req[r].feedback = Some(-1)
        /\ req[r].result # <<>>
        /\ Len(table) = 2
        /\ req[r].result[1] \in Range(table)
        /\ req[r].result[1].processed_for_training

\* ---- C5 ------------------------------------------------------------------
\* C5: update-feedback and mark-processed on an id that no stored row has
\* answer 404 and leave the table as it was: no row changes, none is created.
C5_NotFound ==
    [][\A r \in Req :
        /\ ((Steps(r, "idle", "fb_commit") \/ Steps(r, "idle", "pr_commit"))
                /\ req'[r].interaction_id \notin Ids(table)) =>
              /\ req'[r].result = <<>>
              /\ table' = table
        /\ ((Steps(r, "fb_commit", "fb_return") \/ Steps(r, "pr_commit", "pr_return"))
                /\ req[r].result = <<>>) =>
              table' = table
        /\ ((Steps(r, "fb_return", "idle") \/ Steps(r, "pr_return", "idle"))
                /\ req[r].result = <<>>) =>
              /\ table' = table
              /\ Response(r) = [status |-> 404, body |-> <<>>]]_vars

\* a mark-processed is about to answer 404 on a table that holds another row
C5_Witness ==
    \E r \in Req :
        /\ req[r].pc = "pr_return"
        /\ req[r].result = <<>>
        /\ Response(r).status = 404
        /\ Len(table) = 1
        /\ req[r].interaction_id \notin Ids(table)

\* ---- C6 ------------------------------------------------------------------
\* C6: mark-processed on an existing id with value v changes only
\* processed_for_training of that row, to v; when the row already has v the
\* call returns the same record with 200 and leaves the table as it is.
C6_ProcessedFrame ==
    [][\A r \in Req :
        /\ (Steps(r, "idle", "pr_commit")
                /\ req'[r].interaction_id \in Ids(table)) =>
              LET before == RowOf(table, req'[r].interaction_id) IN
              \E v \in req'[r].processed_for_training :
                  /\ req'[r].result =
                        <<[before EXCEPT !.processed_for_training = v]>>
                  /\ (before.processed_for_training = v =>
                        req'[r].result = <<before>>)
        /\ (Steps(r, "pr_commit", "pr_return") /\ req[r].result # <<>>) =>
              LET before == RowOf(table, req[r].interaction_id) IN
              \E v \in req[r].processed_for_training :
                  /\ SameButFor(table, table', req[r].interaction_id)
                  /\ RowOf(table', req[r].interaction_id) =
                        [before EXCEPT !.processed_for_training = v]
                  /\ RowOf(table', req[r].interaction_id) = req[r].result[1]
                  /\ (before.processed_for_training = v => table' = table)
        /\ (Steps(r, "pr_return", "idle") /\ req[r].result # <<>>) =>
              /\ table' = table
              /\ Response(r) = [status |-> 200, body |-> req[r].result]]_vars

\* a second mark-processed(true) has executed on a row whose flag an earlier
\* one set, and whose feedback was changed too
C6_Witness ==
    \E r \in Req :
        /\ req[r].pc = "pr_commit"
        /\ req[r].processed_for_training = Some(TRUE)
        /\ req[r].result # <<>>
        /\ req[r].result[1] \in Range(table)
        /\ req[r].result[1].feedback # 0
        /\ lastPr[req[r].interaction_id] = Some(TRUE)

\* ---- C7 ------------------------------------------------------------------
\* C7: no two stored rows share an interaction_id; a stored row is never
\* removed; its interaction_id, user_query, bot_response and timestamp never
\* change.
C7_RowsKeepIdentity ==
    /\ [](\A i, j \in DOMAIN table :
            i # j => table[i].interaction_id # table[j].interaction_id)
    /\ [][\A row \in Range(table) : \E kept \in Range(table') :
            /\ kept.interaction_id = row.interaction_id
            /\ kept.user_query = row.user_query
            /\ kept.bot_response = row.bot_response
            /\ kept.timestamp = row.timestamp]_vars

\* two rows, one of them changed by both updates
C7_Witness ==
    /\ Len(table) = 2
    /\ \E row \in Range(table) : row.feedback # 0 /\ row.processed_for_training

\* ---- C8 ------------------------------------------------------------------
\* C8: concurrent updates of one row lose nothing: each column holds what the
\* last committed statement on that column wrote, whatever was written to the
\* other column meanwhile, and each call returns the row with its own value.
C8_ColumnsIndependent ==
    /\ \A row \in Range(table) :
          /\ lastFb[row.interaction_id] = Some(row.feedback)
          /\ lastPr[row.interaction_id] = Some(row.processed_for_training)
    /\ \A r \in Req :
          /\ (req[r].pc = "fb_return" /\ req[r].result # <<>>) =>
                /\ Response(r).status = 200
                /\ Some(Response(r).body[1].feedback) = req[r].feedback
          /\ (req[r].pc = "pr_return" /\ req[r].result # <<>>) =>
                /\ Response(r).status = 200
                /\ Some(Response(r).body[1].processed_for_training) =
                        req[r].processed_for_training

\* an update-feedback(5) and a mark-processed(true) on the same row are both
\* in flight, both committed, and the row has both values
C8_Witness ==
    \E r1, r2 \in Req :
        /\ req[r1].pc = "fb_return" /\ req[r1].feedback = Some(5)
        /\ req[r2].pc = "pr_return" /\ req[r2].processed_for_training = Some(TRUE)
        /\ req[r1].result # <<>> /\ req[r2].result # <<>>
        /\ req[r1].interaction_id = req[r2].interaction_id
        /\ \E row \in Range(table) :
              /\ row.interaction_id = req[r1].interaction_id
              /\ row.feedback = 5
              /\ row.processed_for_training

\* ---- C9 ------------------------------------------------------------------
\* the steps of creates and feedback updates leave every stored flag alone
FlagsKept ==
    \A r \in Req :
        (req[r].pc \in {"c_insert", "c_select", "c_return", "fb_commit", "fb_return"}
            /\ req'[r] # req[r]) =>
                \A row \in Range(table) :
                    RowOf(table', row.interaction_id).processed_for_training =
                        row.processed_for_training

\* C9: a list with processed_for_training=false returns only rows
\* whose flag is FALSE at the read, and never an id whose mark-processed(true)
\* has returned 200 unless a mark-processed(false) on it ran since that
\* return (or was in flight at it); creates and feedback updates never
\* change a flag.
C9_HarvestSinceReturn ==
    [][/\ \A r \in Req :
            (Steps(r, "idle", "ls_return")
                /\ req'[r].processed_for_training = Some(FALSE)) =>
                    \A row \in Range(req'[r].result) :
                        /\ row \in Range(table)
                        /\ row.processed_for_training = FALSE
                        /\ row.interaction_id \notin retTrue
       /\ FlagsKept]_vars

\* C9, counted from the commit: a list with processed_for_training=false
\* returns only rows whose flag is FALSE at the read, and never an id whose
\* mark-processed(true) has committed unless a mark-processed(false) on it
\* committed after that commit; creates and feedback updates never change a
\* flag.
C9_HarvestSinceCommit ==
    [][/\ \A r \in Req :
            (Steps(r, "idle", "ls_return")
                /\ req'[r].processed_for_training = Some(FALSE)) =>
                    \A row \in Range(req'[r].result) :
                        /\ row \in Range(table)
                        /\ row.processed_for_training = FALSE
                        /\ lastPr[row.interaction_id] # Some(TRUE)
       /\ FlagsKept]_vars

\* a harvest returned one of two rows; the other was marked processed and its
\* mark-processed(true) has returned
C9_Witness ==
    \E r \in Req :
        /\ req[r].pc = "ls_return"
        /\ req[r].processed_for_training = Some(FALSE)
        /\ req[r].feedback = None
        /\ Len(req[r].result) = 1
        /\ Len(table) = 2
        /\ \E id \in retTrue :
              /\ lastPr[id] = Some(TRUE)
              /\ id \notin Ids(req[r].result)

\* ---- C10 -----------------------------------------------------------------
\* C10: once its insert has committed, a create's read-back finds the row, so
\* the create answers 200 with that row and never 500; 500 is the answer only
\* to an empty read-back, and carries no record.
C10_ReadBackFinds ==
    /\ \A r \in Req :
          /\ req[r].pc = "c_select" =>
                SelectById(table, req[r].interaction_id) # <<>>
          /\ req[r].pc = "c_return" =>
                /\ Response(r).status = 200
                /\ Len(Response(r).body) = 1
                /\ Response(r).body[1].interaction_id = req[r].interaction_id
    /\ \A result \in {<<>>} \cup {<<row>> : row \in Range(table)} :
          CreateResponse(result).status = 500 <=> result = <<>>
    /\ CreateResponse(<<>>).body = <<>>

\* a create is about to answer 200 with a row that other requests changed
\* between its insert and its read-back, beside another create's row
C10_Witness ==
    \E r \in Req :
        /\ req[r].pc = "c_return"
        /\ Response(r).status = 200
        /\ req[r].result[1].processed_for_training
        /\ req[r].result[1].feedback # 0
        /\ Len(table) = 2

====
